---- MODULE Spec2Model ----
(***************************************************************************)
(* Leave-approval workflow of src/index.ts: the Employee directory, the    *)
(* PendingApproval store and the request handlers /apply-leave (submit),   *)
(* /approve-reject/:approvalId (decide), /employee (upsert),               *)
(* /pending-approvals/:managerId (getPending), /all-approvals              *)
(* (ListAllApprovals), /leave-balance, /create-leave,                      *)
(* /employee/:employeeNumber and /employees.                               *)
(*                                                                         *)
(* Every handler is an async function: between two awaits its code runs    *)
(* atomically on the Node event loop, and each awaited database or gateway *)
(* operation is one atomic step of the store.  A handler is therefore one  *)
(* action per await, and handlers of different requests interleave at      *)
(* these points.  Procs are the request slots that may be in flight.       *)
(***************************************************************************)
EXTENDS Integers, Sequences, FiniteSets, TLC

\* ---------------------------------------------------------------- bounds
MaxClock == 2
MaxCalls == 3

Procs == {1, 2}
SeqProcs == {1}

\* ------------------------------------------------------------- value sets
NULL == "null"
EmpNums == {"1460", "210", "300"}
NameInputs == {"Zara"}
Statuses == {"PENDING", "APPROVED", "REJECTED"}
Actions == {"APPROVE", "REJECT"}
CommentInputs == {"", "ok"}
NoDate == 0

\* A value is falsy in a JavaScript condition (null or the empty string).
Falsy(v) == v \in {NULL, ""}

\* findOne returns null or one document: <<>> or <<doc>>.
Null == <<>>
IsNull(r) == r = <<>>
DocOf(r) == r[1]

\* ---------------------------------------------------------- the directory
NoEmployee ==
  [exists |-> FALSE, name |-> NULL, managerId |-> NULL, managerName |-> NULL,
   isActive |-> FALSE]

DefaultEmployees ==
  [n \in EmpNums |->
     CASE n = "1460" -> [exists |-> TRUE, name |-> "Aysha", managerId |-> "210",
                         managerName |-> "Lubna", isActive |-> TRUE]
       [] n = "210"  -> [exists |-> TRUE, name |-> "Lubna", managerId |-> NULL,
                         managerName |-> NULL, isActive |-> TRUE]
       [] OTHER      -> NoEmployee]

\* Employee.findOne({ employeeNumber, isActive: true })
FindActiveEmployee(dir, num) ==
  IF num \in DOMAIN dir /\ dir[num].exists /\ dir[num].isActive
  THEN <<[employeeNumber |-> num, name |-> dir[num].name,
          managerId |-> dir[num].managerId,
          managerName |-> dir[num].managerName]>>
  ELSE Null

\* ------------------------------------------------------------ the gateway
\* The leave fields of a request body (absenceType, dates, durations, token).
LeaveInputs ==
  {[absenceType |-> "Annual", startDate |-> "2024-06-01", endDate |-> "2024-06-03",
    startDateDuration |-> "2", endDateDuration |-> "1", employeeToken |-> "tok"]}

\* `${parseFloat(startDateDuration)} Days`
ParseFloatStr(s) ==
  CASE s = "1" -> "1" [] s = "2" -> "2" [] s = "1.0" -> "1" [] s = "0.5" -> "0.5"
    [] OTHER -> "NaN"
FormatDuration(s) == <<ParseFloatStr(s), " Days">>

\* new Date().toISOString().split('T')[0]: the calendar day of a clock value.
ISODate(t) == <<"day", (t + 1) \div 2>>

\* parseInt(employeeNumber) + 300000000000000
PersonId(empNum) == <<"300000000000000+", empNum>>

\* Outcomes of the HTTP exchange with the external platform.
GatewayOutcomes == {"ok", "network", "httpError", "failedBody"}
\* Entry ids the external platform may assign.
UpstreamIds == {1}

UpstreamResponse(outcome, id, leave, empNum) ==
  [status |-> IF outcome = "failedBody" THEN "Failed" ELSE "SUCCESS",
   statusDesc |-> "Leave request created successfully",
   personAbsenceEntryId |-> id,
   absenceType |-> leave.absenceType,
   submittedDate |-> ISODate(id),
   personId |-> PersonId(empNum),
   personNumber |-> empNum,
   formattedDuration |-> FormatDuration(leave.startDateDuration)]

\* Faulty variant of CallOracleAPI: the status of the body is not looked at.
CallOracleAPIIgnoresBody(outcome, body) ==
  IF outcome \in {"network", "httpError"} THEN [threw |-> TRUE, resp |-> Null]
  ELSE [threw |-> FALSE, resp |-> <<body>>]
\* callOracleAPI: throws on a transport error, a non-ok HTTP status and a body
\* whose status is "Failed"; returns the body otherwise.
CallOracleAPI(outcome, body) ==
  IF outcome = "network" THEN [threw |-> TRUE, resp |-> Null]
  ELSE IF outcome = "httpError" THEN [threw |-> TRUE, resp |-> Null]
  ELSE IF body.status = "Failed" THEN [threw |-> TRUE, resp |-> Null]
  ELSE [threw |-> FALSE, resp |-> <<body>>]

\* The simulated response built in the catch block of /apply-leave.
SimulatedResponse(t, leave, empNum) ==
  [status |-> "SUCCESS",
   statusDesc |-> "Leave request created successfully",
   personAbsenceEntryId |-> t,
   absenceType |-> leave.absenceType,
   submittedDate |-> ISODate(t),
   personId |-> PersonId(empNum),
   personNumber |-> empNum,
   formattedDuration |-> FormatDuration(leave.startDateDuration)]

\* ------------------------------------------------------ the approval store
\* Faulty variant of NewApproval: the manager's name is copied from the employee record.
NewApprovalEmployeeManagerName(id, empNum, employee, manager, leave, oracleResult, t) ==
  [approvalId |-> id,
   employeeNumber |-> empNum,
   employeeName |-> employee.name,
   managerId |-> employee.managerId,
   managerName |-> employee.managerName,
   leaveRequest |->
     [personAbsenceEntryId |-> oracleResult.personAbsenceEntryId,
      absenceType |-> leave.absenceType,
      startDate |-> leave.startDate,
      endDate |-> leave.endDate,
      duration |-> FormatDuration(leave.startDateDuration),
      submittedDate |-> oracleResult.submittedDate,
      employeeNumber |-> empNum,
      employeeName |-> employee.name],
   status |-> "PENDING",
   submittedAt |-> t,
   approvedBy |-> NULL,
   approvedAt |-> NoDate,
   comments |-> "",
   oracleResponse |-> oracleResult]

\* new PendingApproval({...}) in /apply-leave; submittedAt, comments take the
\* schema defaults, approvedBy and approvedAt are unset.
NewApproval(id, empNum, employee, manager, leave, oracleResult, t) ==
  [approvalId |-> id,
   employeeNumber |-> empNum,
   employeeName |-> employee.name,
   managerId |-> employee.managerId,
   managerName |-> manager.name,
   leaveRequest |->
     [personAbsenceEntryId |-> oracleResult.personAbsenceEntryId,
      absenceType |-> leave.absenceType,
      startDate |-> leave.startDate,
      endDate |-> leave.endDate,
      duration |-> FormatDuration(leave.startDateDuration),
      \* oracleResult.submittedDate || today: both response shapes carry it
      submittedDate |-> oracleResult.submittedDate,
      employeeNumber |-> empNum,
      employeeName |-> employee.name],
   status |-> "PENDING",
   submittedAt |-> t,
   approvedBy |-> NULL,
   approvedAt |-> NoDate,
   comments |-> "",
   oracleResponse |-> oracleResult]

MaxOf(S) == CHOOSE m \in S : \A x \in S : x <= m

\* Faulty variant of NextApprovalId: the first id is 0.
NextApprovalIdFromZero(store) ==
  IF store = <<>> THEN 0
  ELSE MaxOf({store[i].approvalId : i \in DOMAIN store}) + 1

\* PendingApproval.findOne().sort({ approvalId: -1 }), then lastApproval ?
\* lastApproval.approvalId + 1 : 1
NextApprovalId(store) ==
  IF store = <<>> THEN 1
  ELSE MaxOf({store[i].approvalId : i \in DOMAIN store}) + 1

\* Faulty variant of DuplicateKey: no unique index.
DuplicateKeyNever(store, doc) == FALSE

\* The unique index on approvalId (pendingApprovalSchema).
DuplicateKey(store, doc) ==
  \E i \in DOMAIN store : store[i].approvalId = doc.approvalId

\* Faulty variant of InsertApproval: a document with a duplicate key is stored
\* before the error is raised.
InsertApprovalThenThrow(store, doc) ==
  [threw |-> DuplicateKey(store, doc), store |-> Append(store, doc)]
\* approval.save() of a new document: the insert fails on a duplicate key.
InsertApproval(store, doc) ==
  IF DuplicateKey(store, doc)
  THEN [threw |-> TRUE, store |-> store]
  ELSE [threw |-> FALSE, store |-> Append(store, doc)]

\* PendingApproval.findOne({ approvalId }): position of the first match, 0 if none.
FindApprovalIdx(store, id) ==
  IF \E i \in DOMAIN store : store[i].approvalId = id
  THEN CHOOSE i \in DOMAIN store :
         /\ store[i].approvalId = id
         /\ \A j \in DOMAIN store : store[j].approvalId = id => i <= j
  ELSE 0

\* Faulty variant of SaveDecision: the decided document is removed from the store.
SaveDecisionRemoves(store, idx, doc) ==
  SubSeq(store, 1, idx - 1) \o SubSeq(store, idx + 1, Len(store))
\* approval.save() of a loaded document: $set of the modified paths on the
\* stored document with the same _id.
SaveDecision(store, idx, doc) ==
  [store EXCEPT ![idx] =
     [@ EXCEPT !.status = doc.status, !.approvedBy = doc.approvedBy,
               !.approvedAt = doc.approvedAt, !.comments = doc.comments]]

\* ------------------------------------------------------------------ state
VARIABLES
  employees,    \* the Employee collection, by employeeNumber
  approvals,    \* the PendingApproval collection, in insertion (_id) order
  now,          \* the wall clock (Date.now())
  procs,        \* the requests in flight: handler position and locals
  started,      \* number of requests received so far
  sent,         \* the response sent last (res.json)
  synthesized   \* positions of approvals whose response was simulated

vars == <<employees, approvals, now, procs, started, sent, synthesized>>

\* A response body: the outcome and the identifiers the handler puts in it;
\* gateway is the outcome of the HTTP exchange behind a response that relays
\* the gateway, "none" for the others.
NoResponse ==
  [kind |-> "none", http |-> 0, code |-> "none", employeeNumber |-> NULL,
   managerId |-> NULL, requestManagerId |-> NULL, approvalId |-> 0,
   currentStatus |-> NULL, list |-> <<>>, counts |-> <<>>, data |-> <<>>,
   gateway |-> "none"]
Response(http, code) == [NoResponse EXCEPT !.http = http, !.code = code]

IdleProc ==
  [kind |-> "none", pc |-> "idle", args |-> <<>>, employee |-> Null,
   manager |-> Null, oracleResult |-> Null, fellBack |-> FALSE, doc |-> Null,
   docIdx |-> 0, outcome |-> "none", found |-> <<>>, counts |-> <<>>]

Init ==
  /\ employees = DefaultEmployees
  /\ approvals = <<>>
  /\ now = 1
  /\ procs = [p \in Procs |-> IdleProc]
  /\ started = 0
  /\ sent = NoResponse
  /\ synthesized = {}

Free(p) == procs[p].pc = "idle"
Args(p) == procs[p].args[1]

\* res.status(..).json(..): the handler returns.
\* The response is sent and the slot is free again.
Reply(p, kind, response) ==
  /\ sent' = [response EXCEPT !.kind = kind]
  /\ procs' = [procs EXCEPT ![p] = IdleProc]

Finish(p, response) == Reply(p, procs[p].kind, response)

\* The handler goes on to its next await.
Goto(p, rec, pc) ==
  /\ procs' = [procs EXCEPT ![p] = [rec EXCEPT !.pc = pc]]
  /\ sent' = sent

At(p, kind, pc) == procs[p].kind = kind /\ procs[p].pc = pc

\* A request arrives and takes the first free slot.
Accept(p) ==
  /\ Free(p)
  /\ \A q \in Procs : q < p => ~Free(q)
  /\ started < MaxCalls
  /\ started' = started + 1

NewProc(kind, args) == [IdleProc EXCEPT !.kind = kind, !.args = <<args>>]

\* The clock advances.
Tick ==
  /\ now < MaxClock
  /\ now' = now + 1
  /\ UNCHANGED <<employees, approvals, procs, started, sent, synthesized>>

\* ------------------------------------------------- /apply-leave (submit)
MISSING == "undefined"

\* applyLeaveSchema.safeParse: employeeNumber is a required string.
ApplyLeaveValid(args) == args.employeeNumber # MISSING

\* Faulty variant of HasNoManager: only the empty string counts as no manager.
HasNoManagerOnlyEmpty(employee) == employee.managerId = ""

\* Faulty variant of HasNoManager: the manager reference is not looked at.
HasNoManagerNever(employee) == FALSE
\* if (!employee.managerId)
HasNoManager(employee) == Falsy(employee.managerId)

\* The request is validated; Employee.findOne for the employee returns; the
\* checks up to the manager lookup.
StartSubmit(p) ==
  /\ Accept(p)
  /\ \E e \in EmpNums \cup {MISSING}, l \in LeaveInputs :
       LET args == [employeeNumber |-> e, leave |-> l]
           r == FindActiveEmployee(employees, e) IN
       IF ~ApplyLeaveValid(args)
       THEN Reply(p, "submit", Response(400, "ValidationError"))
       ELSE IF IsNull(r)
       THEN Reply(p, "submit",
                  [Response(404, "EmployeeNotFound") EXCEPT !.employeeNumber = e])
       ELSE IF HasNoManager(DocOf(r))
       THEN Reply(p, "submit",
                  [Response(400, "NoManagerAssigned") EXCEPT !.employeeNumber = e])
       ELSE Goto(p, [NewProc("submit", args) EXCEPT !.employee = r], "findManager")
  /\ UNCHANGED <<employees, approvals, now, synthesized>>

\* Employee.findOne for the manager returns; the gateway call is issued.
SubmitFindManager(p) ==
  /\ At(p, "submit", "findManager")
  /\ LET r == FindActiveEmployee(employees, DocOf(procs[p].employee).managerId)
         rec == [procs[p] EXCEPT !.manager = r] IN
       IF IsNull(r)
       THEN Finish(p, [Response(400, "ManagerNotFound") EXCEPT
                         !.managerId = DocOf(procs[p].employee).managerId])
       ELSE Goto(p, rec, "callOracle")
  /\ UNCHANGED <<employees, approvals, now, started, synthesized>>

\* try { oracleResult = await callOracleAPI(..) } catch { oracleResult = simulated }
OracleResultOf(call, t, leave, empNum) ==
  IF call.threw THEN SimulatedResponse(t, leave, empNum) ELSE DocOf(call.resp)

\* The gateway call returns or throws; the max-id query is issued.
SubmitCallOracle(p) ==
  /\ At(p, "submit", "callOracle")
  /\ \E outcome \in GatewayOutcomes, id \in UpstreamIds :
       LET a == Args(p)
           call == CallOracleAPI(outcome,
                     UpstreamResponse(outcome, id, a.leave, a.employeeNumber)) IN
       Goto(p, [procs[p] EXCEPT
                  !.outcome = outcome,
                  !.fellBack = call.threw,
                  !.oracleResult =
                     <<OracleResultOf(call, now, a.leave, a.employeeNumber)>>],
            "findLast")
  /\ UNCHANGED <<employees, approvals, now, started, synthesized>>

\* The max-id query returns; the new document is built and its save issued.
SubmitFindLast(p) ==
  /\ At(p, "submit", "findLast")
  /\ LET a == Args(p)
         doc == NewApproval(NextApprovalId(approvals), a.employeeNumber,
                            DocOf(procs[p].employee), DocOf(procs[p].manager),
                            a.leave, DocOf(procs[p].oracleResult), now) IN
       Goto(p, [procs[p] EXCEPT !.doc = <<doc>>], "save")
  /\ UNCHANGED <<employees, approvals, now, started, synthesized>>

\* approval.save() returns or throws; the response is sent.
SubmitSave(p) ==
  /\ At(p, "submit", "save")
  /\ LET doc == DocOf(procs[p].doc)
         ins == InsertApproval(approvals, doc) IN
       IF ins.threw
       THEN /\ approvals' = ins.store
            /\ synthesized' = synthesized
            /\ Finish(p, Response(500, "InternalError"))
       ELSE /\ approvals' = ins.store
            /\ synthesized' = IF procs[p].fellBack
                              THEN synthesized \cup {Len(ins.store)}
                              ELSE synthesized
            /\ Finish(p, [Response(200, "Success") EXCEPT
                              !.approvalId = doc.approvalId,
                              !.employeeNumber = Args(p).employeeNumber,
                              !.managerId = DocOf(procs[p].employee).managerId])
  /\ UNCHANGED <<employees, now, started>>

\* ------------------------------------- /approve-reject/:approvalId (decide)
ApprovalIdParams == {"1", "2", "x"}
NaN == -1

\* parseInt(approvalId)
ParseInt(str) ==
  CASE str = "1" -> 1 [] str = "2" -> 2 [] str = "3" -> 3 [] OTHER -> NaN

\* Faulty variant of ApproveRejectValid: any action is accepted.
ApproveRejectValidAnyAction(args) == args.managerId # MISSING
\* approveRejectSchema.safeParse: action is one of APPROVE, REJECT.
ApproveRejectValid(args) == args.managerId # MISSING /\ args.action \in Actions

\* The request is validated; Employee.findOne for the deciding manager returns;
\* PendingApproval.findOne is issued, and rejects without reading the store when
\* the id does not cast to a number.
StartDecide(p) ==
  /\ Accept(p)
  /\ \E id \in ApprovalIdParams, m \in EmpNums, act \in Actions \cup {"CANCEL"},
        c \in CommentInputs :
       LET args == [approvalId |-> id, managerId |-> m, action |-> act,
                    comments |-> c]
           r == FindActiveEmployee(employees, m) IN
       IF ~ApproveRejectValid(args)
       THEN Reply(p, "decide", Response(400, "ValidationError"))
       ELSE IF IsNull(r)
       THEN Reply(p, "decide", [Response(404, "ManagerNotFound") EXCEPT !.managerId = m])
       ELSE IF ParseInt(id) = NaN
       THEN Reply(p, "decide", Response(500, "InternalError"))
       ELSE Goto(p, NewProc("decide", args), "findApproval")
  /\ UNCHANGED <<employees, approvals, now, synthesized>>

\* Faulty variants of NotAssignedManager: no check; a check against the employee's
\* current manager in the directory.
NotAssignedManagerNever(approval, managerId) == FALSE
NotAssignedManagerLive(approval, managerId) ==
  employees[approval.employeeNumber].managerId # managerId

\* Faulty variant of NotAssignedManager: the status check comes first.
NotAssignedManagerAfterStatus(approval, managerId) ==
  approval.managerId # managerId /\ approval.status = "PENDING"
\* if (approval.managerId !== managerId)
NotAssignedManager(approval, managerId) == approval.managerId # managerId

\* Faulty variants of AlreadyProcessed: no check; only APPROVED counts as processed.
AlreadyProcessedNever(approval) == FALSE
AlreadyProcessedOnlyApproved(approval) == approval.status = "APPROVED"

\* if (approval.status !== 'PENDING')
AlreadyProcessed(approval) == approval.status # "PENDING"

\* Faulty variant of ApplyDecision: the decision time is not recorded.
ApplyDecisionNoTimestamp(approval, args, t) ==
  [approval EXCEPT
     !.status = IF args.action = "APPROVE" THEN "APPROVED" ELSE "REJECTED",
     !.approvedBy = args.managerId,
     !.comments = args.comments]
\* approval.status = ..; approvedBy = managerId; approvedAt = new Date(); comments
ApplyDecision(approval, args, t) ==
  [approval EXCEPT
     !.status = IF args.action = "APPROVE" THEN "APPROVED" ELSE "REJECTED",
     !.approvedBy = args.managerId,
     !.approvedAt = t,
     !.comments = args.comments]

\* PendingApproval.findOne returns; the checks, then the decision is set on the
\* loaded document and its save is issued.
DecideFindApproval(p) ==
  /\ At(p, "decide", "findApproval")
  /\ LET a == Args(p)
         id == ParseInt(a.approvalId)
         idx == FindApprovalIdx(approvals, id) IN
       IF idx = 0
       THEN Finish(p, [Response(404, "ApprovalNotFound") EXCEPT !.approvalId = id])
       ELSE LET approval == approvals[idx]
                rec == [procs[p] EXCEPT !.doc = <<approval>>, !.docIdx = idx] IN
            IF NotAssignedManager(approval, a.managerId)
            THEN Finish(p, [Response(403, "Unauthorized") EXCEPT
                                   !.requestManagerId = approval.managerId,
                                   !.managerId = a.managerId])
            ELSE IF AlreadyProcessed(approval)
            THEN Finish(p, [Response(400, "AlreadyDecided") EXCEPT
                                   !.currentStatus = approval.status])
            ELSE Goto(p, [rec EXCEPT !.doc = <<ApplyDecision(approval, a, now)>>],
                      "save")
  /\ UNCHANGED <<employees, approvals, now, started, synthesized>>

\* approval.save() returns; the response is sent.
DecideSave(p) ==
  /\ At(p, "decide", "save")
  /\ approvals' = SaveDecision(approvals, procs[p].docIdx, DocOf(procs[p].doc))
  /\ Finish(p, [Response(200, "Success") EXCEPT
                  !.currentStatus = DocOf(procs[p].doc).status,
                  !.approvalId = DocOf(procs[p].doc).approvalId,
                  !.managerId = DocOf(procs[p].doc).approvedBy])
  /\ UNCHANGED <<employees, now, started, synthesized>>

\* ------------------------------------------------------ /employee (upsert)
ABSENT == "absent"

\* employeeSchema_validation.safeParse: employeeNumber and name are required
\* strings, managerId is a required string or null.
EmployeeValid(args) ==
  args.employeeNumber # MISSING /\ args.name # MISSING /\ args.managerId # MISSING

\* Employee.findOneAndUpdate({employeeNumber}, {...employeeData}, {upsert: true}):
\* the supplied fields are set; an inserted document takes the schema defaults.
UpsertEmployee(dir, data) ==
  LET old == dir[data.employeeNumber]
      base == IF old.exists THEN old
              ELSE [exists |-> TRUE, name |-> NULL, managerId |-> NULL,
                    managerName |-> NULL, isActive |-> TRUE] IN
  [dir EXCEPT ![data.employeeNumber] =
     [base EXCEPT !.name = data.name,
                  !.managerId = data.managerId,
                  !.managerName = IF data.managerName = ABSENT THEN @
                                  ELSE data.managerName]]

\* if (employeeData.managerId)
ManagerGiven(data) == ~Falsy(data.managerId)

\* Faulty variant of WithManagerName: a managerName given by the caller is kept.
WithManagerNameKeepSupplied(data, manager) ==
  IF data.managerName = ABSENT THEN [data EXCEPT !.managerName = manager.name]
  ELSE data
\* employeeData.managerName = manager.name
WithManagerName(data, manager) == [data EXCEPT !.managerName = manager.name]

\* The request is validated; with a manager reference, Employee.findOne for the
\* manager returns and the update is issued; without one, the update is the
\* handler's only database operation.
StartUpsert(p) ==
  /\ Accept(p)
  /\ \E e \in EmpNums, n \in NameInputs \cup {MISSING},
        m \in EmpNums \cup {NULL, MISSING}, mn \in NameInputs \cup {ABSENT} :
       LET args == [employeeNumber |-> e, name |-> n, managerId |-> m,
                    managerName |-> mn]
           r == FindActiveEmployee(employees, m) IN
       IF ~EmployeeValid(args)
       THEN /\ Reply(p, "upsert", Response(400, "ValidationError"))
            /\ employees' = employees
       ELSE IF ~ManagerGiven(args)
       THEN /\ employees' = UpsertEmployee(employees, args)
            /\ Reply(p, "upsert", [Response(200, "Success") EXCEPT !.employeeNumber = e])
       ELSE IF IsNull(r)
       THEN /\ Reply(p, "upsert", [Response(400, "InvalidManager") EXCEPT !.managerId = m])
            /\ employees' = employees
       ELSE /\ Goto(p, NewProc("upsert", WithManagerName(args, DocOf(r))), "update")
            /\ employees' = employees
  /\ UNCHANGED <<approvals, now, synthesized>>

\* findOneAndUpdate returns; the response is sent.
UpsertUpdate(p) ==
  /\ At(p, "upsert", "update")
  /\ employees' = UpsertEmployee(employees, Args(p))
  /\ Finish(p, [Response(200, "Success") EXCEPT
                  !.employeeNumber = Args(p).employeeNumber])
  /\ UNCHANGED <<approvals, now, started, synthesized>>

\* ------------------------------ /pending-approvals/:managerId (getPending)
\* Employee.findOne for the manager returns; the query is issued.
StartGetPending(p) ==
  /\ Accept(p)
  /\ \E m \in EmpNums :
       IF IsNull(FindActiveEmployee(employees, m))
       THEN Reply(p, "getPending",
                  [Response(404, "ManagerNotFound") EXCEPT !.managerId = m])
       ELSE Goto(p, NewProc("getPending", [managerId |-> m]), "find")
  /\ UNCHANGED <<employees, approvals, now, synthesized>>

\* Faulty variant of PendingFor: the status is not part of the filter.
PendingForAnyStatus(store, m) ==
  {i \in DOMAIN store : store[i].managerId = m}
\* The filter { managerId, status: 'PENDING' }.
PendingFor(store, m) ==
  {i \in DOMAIN store : store[i].managerId = m /\ store[i].status = "PENDING"}

\* PendingApproval.find(filter).sort({ submittedAt: -1 }): the matching
\* documents, newest first; documents of equal submittedAt come in any order.
PendingLists(store, m) ==
  LET S == PendingFor(store, m)
      n == Cardinality(S) IN
  {[k \in 1 .. n |-> store[f[k]]] :
     f \in {g \in [1 .. n -> S] :
              /\ \A i, j \in 1 .. n : i # j => g[i] # g[j]
              /\ \A i, j \in 1 .. n :
                   i < j => store[g[i]].submittedAt >= store[g[j]].submittedAt}}

GetPendingFind(p) ==
  /\ At(p, "getPending", "find")
  /\ \E l \in PendingLists(approvals, Args(p).managerId) :
       Finish(p, [Response(200, "Success") EXCEPT
                    !.managerId = Args(p).managerId, !.list = l])
  /\ UNCHANGED <<employees, approvals, now, started, synthesized>>

\* ------------------------------------------ /all-approvals (ListAllApprovals)
\* The query parameters status, managerId and employeeNumber; page and limit
\* take their defaults.
StatusFilters == {ABSENT, "APPROVED"}
ManagerFilters == {ABSENT, "210"}
EmployeeFilters == {ABSENT}
DefaultPage == 1
DefaultLimit == 50

\* if (status) filter.status = status; if (managerId) ..; if (employeeNumber) ..
\* A key that is not set does not constrain the match.
Matches(filter, a) ==
  /\ filter.status # ABSENT => a.status = filter.status
  /\ filter.managerId # ABSENT => a.managerId = filter.managerId
  /\ filter.employeeNumber # ABSENT => a.employeeNumber = filter.employeeNumber

\* { ...filter, status: s }
WithStatus(filter, s) == [filter EXCEPT !.status = s]

\* PendingApproval.countDocuments(f)
CountDocuments(store, f) ==
  Cardinality({i \in DOMAIN store : Matches(f, store[i])})

\* The filters of the four countDocuments calls, in the order they are awaited.
CountFilters(filter) ==
  <<filter, WithStatus(filter, "PENDING"), WithStatus(filter, "APPROVED"),
    WithStatus(filter, "REJECTED")>>

Min(a, b) == IF a <= b THEN a ELSE b

\* find(filter).sort({ submittedAt: -1 }).skip(skip).limit(limit)
FindPage(store, filter, page, limit) ==
  LET S == {i \in DOMAIN store : Matches(filter, store[i])}
      n == Cardinality(S)
      skip == (page - 1) * limit
      sorted ==
        {[k \in 1 .. n |-> store[f[k]]] :
           f \in {g \in [1 .. n -> S] :
                    /\ \A i, j \in 1 .. n : i # j => g[i] # g[j]
                    /\ \A i, j \in 1 .. n :
                         i < j => store[g[i]].submittedAt >= store[g[j]].submittedAt}} IN
  {SubSeq(l, skip + 1, Min(n, skip + limit)) : l \in sorted}

\* Math.ceil(total / limit)
TotalPages(total, limit) == (total + limit - 1) \div limit

\* The query is parsed; PendingApproval.find returns; the first count is issued.
StartListAll(p) ==
  /\ Accept(p)
  /\ \E s \in StatusFilters, m \in ManagerFilters, e \in EmployeeFilters :
       LET filter == [status |-> s, managerId |-> m, employeeNumber |-> e] IN
       \E l \in FindPage(approvals, filter, DefaultPage, DefaultLimit) :
         Goto(p, [NewProc("listAll", filter) EXCEPT !.found = l], "count")
  /\ UNCHANGED <<employees, approvals, now, synthesized>>

\* One of countDocuments for total, pending, approved returns; the next is issued.
ListAllCount(p) ==
  /\ At(p, "listAll", "count")
  /\ Len(procs[p].counts) < 3
  /\ LET k == Len(procs[p].counts) + 1
         c == CountDocuments(approvals, CountFilters(Args(p))[k]) IN
       Goto(p, [procs[p] EXCEPT !.counts = Append(@, c)], "count")
  /\ UNCHANGED <<employees, approvals, now, started, synthesized>>

\* countDocuments for rejected returns; the response is sent.
ListAllReply(p) ==
  /\ At(p, "listAll", "count")
  /\ Len(procs[p].counts) = 3
  /\ LET c == procs[p].counts
         rejected == CountDocuments(approvals, CountFilters(Args(p))[4]) IN
       Finish(p, [Response(200, "Success") EXCEPT
                    !.counts = <<[total |-> c[1], pending |-> c[2],
                                  approved |-> c[3], rejected |-> rejected,
                                  totalPages |-> TotalPages(c[1], DefaultLimit)]>>,
                    !.list = procs[p].found])
  /\ UNCHANGED <<employees, approvals, now, started, synthesized>>

\* ------------------------------------------- /leave-balance, /create-leave
AsOfDates == {"2024-06-01"}

\* getLeaveBalanceSchema / createLeaveSchema: the employee number is required.
GatewayRequestValid(args) == args.employeeNumber # MISSING

\* The body the external platform answers a balance query with.
BalanceResponse(outcome, empNum) ==
  [status |-> IF outcome = "failedBody" THEN "Failed" ELSE "SUCCESS",
   personNumber |-> empNum,
   balance |-> "10"]

\* The request is validated; Employee.findOne returns; the gateway call is issued.
StartGateway(p, kind, args) ==
  /\ Accept(p)
  /\ IF ~GatewayRequestValid(args)
     THEN Reply(p, kind, Response(400, "ValidationError"))
     ELSE IF IsNull(FindActiveEmployee(employees, args.employeeNumber))
     THEN Reply(p, kind, [Response(404, "EmployeeNotFound") EXCEPT
                            !.employeeNumber = args.employeeNumber])
     ELSE Goto(p, NewProc(kind, args), "callOracle")
  /\ UNCHANGED <<employees, approvals, now, synthesized>>

\* Faulty variant of RelayGateway: a failed call is answered with empty data.
RelayGatewayAbsorbs(p, outcome, call) ==
  /\ Finish(p, [Response(200, "Success") EXCEPT
                  !.gateway = outcome, !.data = call.resp,
                  !.employeeNumber = Args(p).employeeNumber])
  /\ UNCHANGED <<employees, approvals, now, started, synthesized>>
\* return res.json({ data }) or, in the catch block, status 500.
RelayGateway(p, outcome, call) ==
  /\ IF call.threw
     THEN Finish(p, [Response(500, "InternalError") EXCEPT !.gateway = outcome])
     ELSE Finish(p, [Response(200, "Success") EXCEPT
                       !.gateway = outcome, !.data = call.resp,
                       !.employeeNumber = Args(p).employeeNumber])
  /\ UNCHANGED <<employees, approvals, now, started, synthesized>>

StartLeaveBalance(p) ==
  \E e \in EmpNums \cup {MISSING}, d \in AsOfDates :
    StartGateway(p, "leaveBalance", [employeeNumber |-> e, asofDate |-> d])

\* callOracleAPI for the balance returns or throws; the response is sent.
LeaveBalanceCall(p) ==
  /\ At(p, "leaveBalance", "callOracle")
  /\ \E outcome \in GatewayOutcomes :
       RelayGateway(p, outcome,
         CallOracleAPI(outcome, BalanceResponse(outcome, Args(p).employeeNumber)))

StartCreateLeave(p) ==
  \E e \in EmpNums \cup {MISSING}, l \in LeaveInputs :
    StartGateway(p, "createLeave", [employeeNumber |-> e, leave |-> l])

\* callOracleAPI for the leave entry returns or throws; the response is sent.
CreateLeaveCall(p) ==
  /\ At(p, "createLeave", "callOracle")
  /\ \E outcome \in GatewayOutcomes, id \in UpstreamIds :
       RelayGateway(p, outcome,
         CallOracleAPI(outcome,
           UpstreamResponse(outcome, id, Args(p).leave, Args(p).employeeNumber)))

\* ------------------------------------- /employee/:employeeNumber, /employees
\* Employee.findOne returns; the response is sent.
GetEmployee(p) ==
  /\ Accept(p)
  /\ \E e \in EmpNums :
       LET r == FindActiveEmployee(employees, e) IN
       IF IsNull(r)
       THEN Reply(p, "getEmployee",
                  [Response(404, "EmployeeNotFound") EXCEPT !.employeeNumber = e])
       ELSE Reply(p, "getEmployee",
                  [Response(200, "Success") EXCEPT !.employeeNumber = e, !.data = r])
  /\ UNCHANGED <<employees, approvals, now, synthesized>>

\* The filter { isActive: true } with managerId when the query gives one.
EmployeeMatches(dir, managerId) ==
  {n \in DOMAIN dir :
     /\ dir[n].exists /\ dir[n].isActive
     /\ managerId # ABSENT => dir[n].managerId = managerId}

\* The order of the names the directory can hold.
NameRank(name) ==
  CASE name = "Aysha" -> 1 [] name = "Lubna" -> 2 [] OTHER -> 3

\* Employee.find(filter).sort({ name: 1 }).skip(skip).limit(limit): the
\* employee numbers of the page.
FindEmployeesPage(dir, managerId, page, limit) ==
  LET S == EmployeeMatches(dir, managerId)
      n == Cardinality(S)
      skip == (page - 1) * limit
      sorted ==
        {g \in [1 .. n -> S] :
           /\ \A i, j \in 1 .. n : i # j => g[i] # g[j]
           /\ \A i, j \in 1 .. n :
                i < j => NameRank(dir[g[i]].name) <= NameRank(dir[g[j]].name)} IN
  {SubSeq(l, skip + 1, Min(n, skip + limit)) : l \in sorted}

\* Employee.find returns; countDocuments is issued.
StartListEmployees(p) ==
  /\ Accept(p)
  /\ \E m \in ManagerFilters :
       \E l \in FindEmployeesPage(employees, m, DefaultPage, DefaultLimit) :
         Goto(p, [NewProc("listEmployees", [managerId |-> m]) EXCEPT !.found = l],
              "count")
  /\ UNCHANGED <<employees, approvals, now, synthesized>>

\* countDocuments returns; the response is sent.
ListEmployeesCount(p) ==
  /\ At(p, "listEmployees", "count")
  /\ LET total == Cardinality(EmployeeMatches(employees, Args(p).managerId)) IN
       Finish(p, [Response(200, "Success") EXCEPT
                    !.counts = <<[total |-> total,
                                  totalPages |-> TotalPages(total, DefaultLimit)]>>,
                    !.list = procs[p].found])
  /\ UNCHANGED <<employees, approvals, now, started, synthesized>>

\* ---------------------------------------------------------- specification
Step(p) ==
  \/ StartSubmit(p)
  \/ SubmitFindManager(p)
  \/ SubmitCallOracle(p)
  \/ SubmitFindLast(p)
  \/ SubmitSave(p)
  \/ StartDecide(p)
  \/ DecideFindApproval(p)
  \/ DecideSave(p)
  \/ StartUpsert(p)
  \/ UpsertUpdate(p)
  \/ StartGetPending(p)
  \/ GetPendingFind(p)
  \/ StartListAll(p)
  \/ ListAllCount(p)
  \/ ListAllReply(p)
  \/ StartLeaveBalance(p)
  \/ LeaveBalanceCall(p)
  \/ StartCreateLeave(p)
  \/ CreateLeaveCall(p)
  \/ GetEmployee(p)
  \/ StartListEmployees(p)
  \/ ListEmployeesCount(p)

\* Requests are handled concurrently.
Next == Tick \/ \E p \in Procs : Step(p)
Spec == Init /\ [][Next]_vars

\* Requests run one at a time: each completes before the next starts.
SeqNext == Tick \/ \E p \in SeqProcs : Step(p)
SeqSpec == Init /\ [][SeqNext]_vars

\* ------------------------------------------------------------ properties
\* The handler in slot p takes a step.
Stepped(p) == procs'[p] # procs[p]
\* A request arrives in this step.
Arrived == started' # started
\* The approval a decide in slot p, waiting for its findOne, is about to load.
TargetIdx(p) == FindApprovalIdx(approvals, ParseInt(Args(p).approvalId))
\* The decide in slot p gets its approval from findOne in this step.
DecideLoads(p) == At(p, "decide", "findApproval") /\ Stepped(p) /\ TargetIdx(p) # 0
\* The handler in slot p ends in this step with the response code.
Ends(p, code) == procs'[p] = IdleProc /\ sent'.code = code

Decided(a) == a.status # "PENDING"

\* No approval is removed, and only a PENDING approval changes, to APPROVED or
\* REJECTED.
OnlyPendingChanges ==
  /\ Len(approvals') >= Len(approvals)
  /\ \A i \in DOMAIN approvals :
       \/ approvals'[i] = approvals[i]
       \/ /\ approvals[i].status = "PENDING"
          /\ approvals'[i].status \in {"APPROVED", "REJECTED"}

\* C1: with requests handled one at a time, every step changes an approval's
\* status only from PENDING to APPROVED or REJECTED, and an approval that is no
\* longer PENDING never changes again in any field.
C1_TerminalImmutable == [][OnlyPendingChanges]_vars

\* C1 witness: an approval was decided and a later decide of it was turned away.
C1_Witness ==
  /\ sent.kind = "decide" /\ sent.code = "AlreadyDecided"
  /\ \E i \in DOMAIN approvals :
       approvals[i].status = sent.currentStatus /\ approvals[i].approvedAt # NoDate

\* C2: of two concurrent decides of one PENDING approval by its manager at most
\* one succeeds, and the decision saved first (status, approvedBy, approvedAt,
\* comments) is never overwritten: no step saves a decision on, or reports
\* success for, an approval that is already decided.
C2_DecisionNeverOverwritten ==
  [][\A i \in DOMAIN approvals :
       Decided(approvals[i]) =>
         /\ approvals'[i].status = approvals[i].status
         /\ approvals'[i].approvedBy = approvals[i].approvedBy
         /\ approvals'[i].approvedAt = approvals[i].approvedAt
         /\ approvals'[i].comments = approvals[i].comments
         /\ \A p \in Procs :
              At(p, "decide", "save") /\ procs[p].docIdx = i /\ Stepped(p)
                => sent'.code # "Success"]_vars

\* What a decide that loads an approval already decided does: it changes
\* nothing and answers by the manager number it was called with.
SecondDecideRefused(p, code) ==
  DecideLoads(p) /\ Decided(approvals[TargetIdx(p)])
    => /\ Ends(p, code)
       /\ code = "AlreadyDecided" =>
            sent'.currentStatus = approvals[TargetIdx(p)].status
       /\ approvals' = approvals

\* C3 as stated: a decide of an approval that is already decided fails
\* AlreadyDecided carrying the current status, whatever manager number, action
\* and comments it is called with, and leaves the record unchanged.
C3_AnySecondDecideAlreadyDecided ==
  [][\A p \in Procs : SecondDecideRefused(p, "AlreadyDecided")]_vars

\* C3 amended: with requests handled one at a time a status changes once only;
\* a decide of an approval that is already decided fails AlreadyDecided
\* carrying the current status when called with the approval's stored
\* managerId, fails Unauthorized when called with another active manager
\* number, and in both cases, as for a request that fails at arrival
\* (ManagerNotFound, validation), the store is left unchanged.
C3_SecondDecideRefused ==
  [][/\ OnlyPendingChanges
     /\ Arrived => approvals' = approvals
     /\ \A p \in Procs :
          SecondDecideRefused(p,
            IF DecideLoads(p) /\ approvals[TargetIdx(p)].managerId # Args(p).managerId
            THEN "Unauthorized" ELSE "AlreadyDecided")]_vars

\* C3 witness: the scenario of the spec, an approval APPROVED by its manager and
\* a later REJECT by the same manager answered AlreadyDecided, status APPROVED.
C3_Witness ==
  /\ sent.kind = "decide" /\ sent.code = "AlreadyDecided"
  /\ sent.currentStatus = "APPROVED"
  /\ \E i \in DOMAIN approvals :
       approvals[i].status = "APPROVED" /\ approvals[i].approvedBy = approvals[i].managerId

\* C4: a decide called with an active manager number other than the approval's
\* stored managerId fails Unauthorized and changes no approval, whatever the
\* approval's status; neither does the arrival of the request.
C4_WrongManagerUnauthorized ==
  [][/\ Arrived /\ sent'.kind = "decide" => approvals' = approvals
     /\ \A p \in Procs :
          DecideLoads(p) /\ approvals[TargetIdx(p)].managerId # Args(p).managerId
            => /\ Ends(p, "Unauthorized")
               /\ sent'.http = 403
               /\ approvals' = approvals]_vars

\* C4 witness: Unauthorized was answered for an approval that is already decided.
C4_Witness ==
  /\ sent.kind = "decide" /\ sent.code = "Unauthorized"
  /\ sent.managerId # sent.requestManagerId
  /\ \E i \in DOMAIN approvals :
       Decided(approvals[i]) /\ approvals[i].managerId = sent.requestManagerId

\* C5: no two stored approvals have the same approvalId.
C5_ApprovalIdsUnique ==
  \A i, j \in DOMAIN approvals :
    i # j => approvals[i].approvalId # approvals[j].approvalId

\* C5 witness: two approvals are stored and a concurrent submit is about to save
\* a document with an id that is already taken.
C5_Witness ==
  /\ Len(approvals) = 2
  /\ \E p \in Procs :
       At(p, "submit", "save") /\ DuplicateKey(approvals, DocOf(procs[p].doc))

\* The responses the gateway can return for a created leave entry.
GenuineResponses ==
  {UpstreamResponse("ok", id, l, e) : id \in UpstreamIds, l \in LeaveInputs, e \in EmpNums}

\* C6: the response embedded in an approval created on the fallback path is
\* marked as synthesized: it cannot be taken for a response of the gateway.
C6_FallbackMarked ==
  \A i \in synthesized : approvals[i].oracleResponse \notin GenuineResponses

\* The submit for employee e arrives in this step (it is answered at once or
\* goes on to the manager lookup).
SubmitArrives(e) ==
  /\ Arrived
  /\ \/ procs' = procs /\ sent'.kind = "submit" /\ sent'.employeeNumber = e
     \/ \E p \in Procs :
          /\ Stepped(p) /\ procs'[p].kind = "submit"
          /\ procs'[p].args[1].employeeNumber = e

\* C7: a submit for an active employee whose manager reference is empty fails
\* NoManagerAssigned at once and leaves the approval store unchanged.
C7_NoManagerAssigned ==
  [][\A e \in EmpNums :
       /\ SubmitArrives(e)
       /\ ~IsNull(FindActiveEmployee(employees, e))
       /\ Falsy(employees[e].managerId)
       => /\ procs' = procs
          /\ sent'.code = "NoManagerAssigned" /\ sent'.http = 400
          /\ approvals' = approvals]_vars

\* C7 witness: NoManagerAssigned was answered for an active employee without a
\* manager reference.
C7_Witness ==
  /\ sent.kind = "submit" /\ sent.code = "NoManagerAssigned"
  /\ sent.employeeNumber \in EmpNums
  /\ ~IsNull(FindActiveEmployee(employees, sent.employeeNumber))
  /\ Falsy(employees[sent.employeeNumber].managerId)

\* The submit in slot p stores its approval and answers success in this step.
SubmitSucceeds(p) == At(p, "submit", "save") /\ Stepped(p) /\ sent'.code = "Success"

\* C8: right after a successful submit, getPending for the approval's manager
\* succeeds and every list it can return contains the new approval with status
\* PENDING and with the employee and manager names the submit read from the
\* directory.
C8_SubmitThenGetPending ==
  [][\A p \in Procs :
       SubmitSucceeds(p) =>
         /\ ~IsNull(FindActiveEmployee(employees', sent'.managerId))
         /\ \A l \in PendingLists(approvals', sent'.managerId) :
              \E k \in DOMAIN l :
                /\ l[k].approvalId = sent'.approvalId
                /\ l[k].status = "PENDING"
                /\ l[k].employeeNumber = Args(p).employeeNumber
                /\ l[k].employeeName = DocOf(procs[p].employee).name
                /\ l[k].managerName = DocOf(procs[p].manager).name]_vars

\* C8 witness: a submit succeeded after its manager was renamed, and the new
\* approval is PENDING for that manager under the manager's directory name.
C8_Witness ==
  /\ sent.kind = "submit" /\ sent.code = "Success"
  /\ \E i \in PendingFor(approvals, sent.managerId) :
       /\ approvals[i].approvalId = sent.approvalId
       /\ approvals[i].managerName = employees[sent.managerId].name
       /\ approvals[i].managerName \in NameInputs
       /\ approvals[i].employeeName = employees[sent.employeeNumber].name

\* C9: with requests handled one at a time, the k-th approval stored has
\* approvalId k: the first is 1, each next one is the maximum so far plus one,
\* and after n successful submits the stored ids are exactly 1..n.
C9_IdsGapFree ==
  \A i \in DOMAIN approvals : approvals[i].approvalId = i

\* C9 witness: two submits have succeeded.
C9_Witness ==
  /\ Len(approvals) = 2
  /\ sent.kind = "submit" /\ sent.code = "Success" /\ sent.approvalId = 2

\* C10: an approval's managerId never changes, and a decide of a PENDING
\* approval is authorized by that stored managerId alone: called with it the
\* decide goes on to save the decision and succeeds, called with any other
\* active manager number, the employee's current manager included, it fails
\* Unauthorized.
C10_SnapshotAuthorizes ==
  [][/\ \A i \in DOMAIN approvals : approvals'[i].managerId = approvals[i].managerId
     /\ \A p \in Procs :
          /\ DecideLoads(p) /\ ~Decided(approvals[TargetIdx(p)]) =>
               IF Args(p).managerId = approvals[TargetIdx(p)].managerId
               THEN procs'[p].pc = "save" /\ procs'[p].docIdx = TargetIdx(p)
               ELSE Ends(p, "Unauthorized") /\ approvals' = approvals
          /\ At(p, "decide", "save") /\ Stepped(p) =>
               /\ Ends(p, "Success")
               /\ Decided(approvals'[procs[p].docIdx])
               /\ approvals'[procs[p].docIdx].approvedBy =
                    approvals[procs[p].docIdx].managerId]_vars

\* C10 witness: the employee was reassigned after submitting; the approval is
\* still with the manager of submission time, and the employee's new manager
\* was answered Unauthorized.
C10_Witness ==
  /\ sent.kind = "decide" /\ sent.code = "Unauthorized"
  /\ \E i \in DOMAIN approvals :
       /\ approvals[i].managerId = sent.requestManagerId
       /\ approvals[i].status = "PENDING"
       /\ employees[approvals[i].employeeNumber].managerId = sent.managerId

\* The getPending in slot p gets the result of its query in this step.
GetPendingReturns(p) == At(p, "getPending", "find") /\ Stepped(p)

\* A request is answered in the step it arrives in.
AnsweredAtOnce == Arrived /\ procs' = procs

\* C11: getPending for an active manager returns exactly the stored approvals
\* that are PENDING with that managerId, each once, newest submission first, so
\* no decided approval is ever in a result; getPending for a number that is not
\* an active employee fails ManagerNotFound, and only then.
C11_GetPendingExact ==
  [][/\ \A p \in Procs :
          GetPendingReturns(p) =>
            LET m == Args(p).managerId
                l == sent'.list IN
            /\ Ends(p, "Success")
            /\ \A k \in DOMAIN l :
                 /\ \E i \in DOMAIN approvals : l[k] = approvals[i]
                 /\ l[k].status = "PENDING" /\ l[k].managerId = m
            /\ \A i \in DOMAIN approvals :
                 approvals[i].status = "PENDING" /\ approvals[i].managerId = m
                   => \E k \in DOMAIN l : l[k] = approvals[i]
            /\ \A j, k \in DOMAIN l :
                 /\ j # k => l[j].approvalId # l[k].approvalId
                 /\ j < k => l[j].submittedAt >= l[k].submittedAt
     /\ AnsweredAtOnce /\ sent'.kind = "getPending" =>
          /\ sent'.code = "ManagerNotFound" /\ sent'.http = 404
          /\ ~(employees[sent'.managerId].exists /\ employees[sent'.managerId].isActive)
     /\ \A p \in Procs :
          Arrived /\ Stepped(p) /\ procs'[p].kind = "getPending" =>
            LET m == procs'[p].args[1].managerId IN
            employees[m].exists /\ employees[m].isActive]_vars

\* C11 witness: the scenario of the spec, getPending for a manager whose only
\* approval has been decided returns no entry.
C11_Witness ==
  /\ sent.kind = "getPending" /\ sent.code = "Success" /\ sent.list = <<>>
  /\ \E i \in DOMAIN approvals :
       approvals[i].managerId = sent.managerId /\ Decided(approvals[i])


\* C12: in every state of the directory every employee's manager reference, when
\* not empty, is the number of an active employee other than the employee.
C12_ManagerRefsResolve ==
  \A e \in EmpNums :
    employees[e].exists /\ ~Falsy(employees[e].managerId) =>
      LET m == employees[e].managerId IN
      /\ m # e
      /\ m \in EmpNums /\ employees[m].exists /\ employees[m].isActive


\* The upsert in slot p gets the result of findOneAndUpdate in this step.
UpsertUpdates(p) == At(p, "upsert", "update") /\ Stepped(p)

\* An upsert is refused InvalidManager exactly when its manager reference is
\* not the number of an active employee, and then the directory is unchanged;
\* an upsert that goes on to its update has an active manager.
InvalidManagerRefused ==
  /\ AnsweredAtOnce /\ sent'.kind = "upsert" /\ sent'.code = "InvalidManager" =>
       /\ sent'.http = 400
       /\ ~(employees[sent'.managerId].exists /\ employees[sent'.managerId].isActive)
       /\ employees' = employees
  /\ AnsweredAtOnce /\ sent'.kind = "upsert" /\ sent'.code = "Success" =>
       Falsy(employees'[sent'.employeeNumber].managerId)
  /\ \A p \in Procs :
       Arrived /\ Stepped(p) /\ procs'[p].kind = "upsert" =>
         LET m == procs'[p].args[1].managerId IN
         /\ employees[m].exists /\ employees[m].isActive
         /\ employees' = employees

\* C13 as stated: an upsert whose manager reference does not resolve fails
\* InvalidManager and leaves the directory unchanged; after a successful upsert
\* with a manager reference the stored managerName is the current name of the
\* referenced manager.
C13_ManagerNameCurrent ==
  [][/\ InvalidManagerRefused
     /\ \A p \in Procs :
          UpsertUpdates(p) =>
            LET a == Args(p) IN
            /\ Ends(p, "Success")
            /\ employees'[a.employeeNumber].managerId = a.managerId
            /\ employees'[a.employeeNumber].managerName =
                 employees'[a.managerId].name]_vars

\* C13 amended: an upsert whose manager reference does not resolve fails
\* InvalidManager and leaves the directory unchanged; after a successful upsert
\* with a manager reference the stored managerName is the name the manager had
\* when the upsert looked the manager up, whatever managerName the caller gave.
C13_ManagerNameSnapshot ==
  [][/\ InvalidManagerRefused
     /\ \A p \in Procs :
          Arrived /\ Stepped(p) /\ procs'[p].kind = "upsert" =>
            procs'[p].args[1].managerName =
              employees[procs'[p].args[1].managerId].name
     /\ \A p \in Procs :
          UpsertUpdates(p) =>
            LET a == Args(p) IN
            /\ Ends(p, "Success")
            /\ employees'[a.employeeNumber].managerId = a.managerId
            /\ employees'[a.employeeNumber].managerName = a.managerName]_vars

\* C13 witness: a new employee was stored with a manager reference, and its
\* managerName is the manager's name, which no caller can have supplied.
C13_Witness ==
  /\ sent.kind = "upsert" /\ sent.code = "Success" /\ sent.employeeNumber = "300"
  /\ ~Falsy(employees["300"].managerId)
  /\ employees["300"].managerName = employees[employees["300"].managerId].name
  /\ employees["300"].managerName \notin NameInputs


\* The ListAllApprovals in slot p gets its last count and answers in this step.
ListAllReturns(p) ==
  At(p, "listAll", "count") /\ Stepped(p) /\ procs'[p] = IdleProc

\* C14: with requests handled one at a time, the counts ListAllApprovals
\* returns for a filter are taken over the approvals matching the filter:
\* total is their number, pending, approved and rejected are the numbers of
\* them with that status, and the three add up to total.
C14_CountsOverFilteredSet ==
  [][\A p \in Procs :
       ListAllReturns(p) =>
         LET S == {i \in DOMAIN approvals : Matches(Args(p), approvals[i])}
             WithSt(s) == {i \in S : approvals[i].status = s}
             c == sent'.counts[1] IN
         /\ c.total = Cardinality(S)
         /\ c.pending = Cardinality(WithSt("PENDING"))
         /\ c.approved = Cardinality(WithSt("APPROVED"))
         /\ c.rejected = Cardinality(WithSt("REJECTED"))
         /\ c.pending + c.approved + c.rejected = c.total]_vars


SubmitOrDecide == {"submit", "decide"}

\* The responses of submit and decide that report a failure.
FailureCodes ==
  {"ValidationError", "EmployeeNotFound", "NoManagerAssigned", "ManagerNotFound",
   "ApprovalNotFound", "Unauthorized", "AlreadyDecided", "InternalError"}

\* C15: a submit or decide call writes to the approval store only in the step
\* that answers success, and never writes to the directory: a call that
\* returns a failure has changed neither, from its arrival to its response, and
\* a submit that stores its approval answers success.
C15_FailureLeavesNoTrace ==
  [][/\ AnsweredAtOnce /\ sent'.kind \in SubmitOrDecide =>
          /\ sent'.code \in FailureCodes
          /\ approvals' = approvals /\ employees' = employees
     /\ \A p \in Procs :
          Arrived /\ Stepped(p) /\ procs'[p].kind \in SubmitOrDecide =>
            approvals' = approvals /\ employees' = employees
     /\ \A p \in Procs :
          Stepped(p) /\ procs[p].kind \in SubmitOrDecide =>
            /\ employees' = employees
            /\ procs'[p] = IdleProc => sent'.code \in FailureCodes \cup {"Success"}
            /\ approvals' # approvals =>
                 Ends(p, "Success") /\ sent'.http = 200
            /\ procs'[p] = IdleProc /\ sent'.code \in FailureCodes =>
                 approvals' = approvals]_vars

\* C15 witness: a submit failed at its save, on an approvalId taken by a
\* concurrent submit, and the store holds only the other approval.
C15_Witness ==
  /\ sent.kind = "submit" /\ sent.code = "InternalError"
  /\ Len(approvals) = 1


\* The decide for manager m arrives in this step and goes on to load its approval.
DecideGoesOn(p) == Arrived /\ Stepped(p) /\ procs'[p].kind = "decide"

\* C16: decide reports the first failure in the order ManagerNotFound,
\* ApprovalNotFound, Unauthorized, AlreadyDecided.  A decide whose manager
\* number is not an active employee is answered at once, ManagerNotFound,
\* before the approval is looked at; one that goes on to load its approval has
\* an active manager, and then fails ApprovalNotFound when there is no such
\* approval, else Unauthorized when the manager is not the approval's, whatever
\* its status, else AlreadyDecided when it is not PENDING.
C16_DecideCheckOrder ==
  [][/\ AnsweredAtOnce /\ sent'.kind = "decide" =>
          /\ sent'.code \in {"ValidationError", "ManagerNotFound", "InternalError"}
          /\ sent'.code = "ManagerNotFound" =>
               ~(employees[sent'.managerId].exists /\ employees[sent'.managerId].isActive)
     /\ \A p \in Procs :
          DecideGoesOn(p) =>
            LET m == procs'[p].args[1].managerId IN
            employees[m].exists /\ employees[m].isActive
     /\ \A p \in Procs :
          At(p, "decide", "findApproval") /\ Stepped(p) =>
            LET a == Args(p)
                hits == {i \in DOMAIN approvals :
                           approvals[i].approvalId = ParseInt(a.approvalId)} IN
            IF hits = {} THEN Ends(p, "ApprovalNotFound")
            ELSE \E i \in hits :
                   IF approvals[i].managerId # a.managerId
                   THEN Ends(p, "Unauthorized")
                   ELSE IF approvals[i].status # "PENDING"
                   THEN Ends(p, "AlreadyDecided")
                   ELSE procs'[p].pc = "save"]_vars

\* C16 witness: ManagerNotFound was answered to a decide while the store holds
\* a decided approval of another manager, so that for this approval the
\* conditions of Unauthorized and AlreadyDecided hold as well.
C16_Witness ==
  /\ sent.kind = "decide" /\ sent.code = "ManagerNotFound"
  /\ \E i \in DOMAIN approvals :
       Decided(approvals[i]) /\ approvals[i].managerId # sent.managerId


\* The operations other than submit and decide.
OtherKinds ==
  {"getPending", "listAll", "getEmployee", "listEmployees", "upsert",
   "leaveBalance", "createLeave"}

\* C17: no step of getPending, ListAllApprovals, employee lookup, employee
\* listing, upsert, leave-balance or create-leave changes the approval store,
\* and no step at all removes an approval or changes an approvalId: the set of
\* stored ids only grows.
C17_OnlyEngineWrites ==
  [][/\ AnsweredAtOnce /\ sent'.kind \in OtherKinds => approvals' = approvals
     /\ \A p \in Procs :
          Stepped(p) /\ (procs[p].kind \in OtherKinds \/ procs'[p].kind \in OtherKinds)
            => approvals' = approvals
     /\ \A i \in DOMAIN approvals :
          /\ i \in DOMAIN approvals'
          /\ approvals'[i].approvalId = approvals[i].approvalId]_vars

\* C17 witness: a direct create-leave for an employee succeeded; the store
\* still holds the one approval that the employee's submit created.
C17_Witness ==
  /\ sent.kind = "createLeave" /\ sent.code = "Success"
  /\ Len(approvals) = 1
  /\ approvals[1].employeeNumber = sent.employeeNumber


\* The outcomes of the HTTP exchange that are failures of the gateway.
GatewayFailures == {"network", "httpError", "failedBody"}

\* The handler in slot p gets the result of its gateway call in this step.
GatewayReturns(p, kind) == At(p, kind, "callOracle") /\ Stepped(p)

\* C18: a failed gateway call of leave-balance or create-leave is answered
\* with an internal error and no data, and a successful one with the
\* gateway's body; a gateway call of submit never ends the submit, whatever
\* its outcome, and a submit whose gateway call failed answers success
\* unless its save fails on a taken approvalId.
C18_FailureAbsorbedOnlyInSubmit ==
  [][/\ \A p \in Procs :
          GatewayReturns(p, "leaveBalance") \/ GatewayReturns(p, "createLeave") =>
            /\ procs'[p] = IdleProc
            /\ sent'.gateway \in GatewayOutcomes
            /\ IF sent'.gateway \in GatewayFailures
               THEN sent'.code = "InternalError" /\ sent'.http = 500 /\ sent'.data = <<>>
               ELSE /\ sent'.code = "Success" /\ sent'.http = 200
                    /\ sent'.data # <<>> /\ sent'.data[1].status # "Failed"
     /\ \A p \in Procs :
          GatewayReturns(p, "submit") =>
            /\ procs'[p].pc = "findLast" /\ sent' = sent
            /\ procs'[p].outcome \in GatewayOutcomes
            /\ procs'[p].oracleResult # <<>>
     /\ \A p \in Procs :
          /\ At(p, "submit", "save") /\ Stepped(p)
          /\ procs[p].outcome \in GatewayFailures
          => \/ Ends(p, "Success")
             \/ \E i \in DOMAIN approvals :
                  approvals[i].approvalId = procs[p].doc[1].approvalId]_vars

\* C18 witness: a balance query whose gateway call failed was answered with an
\* internal error, after a submit whose gateway call failed stored its approval.
C18_Witness ==
  /\ sent.kind = "leaveBalance" /\ sent.gateway \in GatewayFailures
  /\ sent.code = "InternalError"
  /\ synthesized # {}


\* C19: each of the three failure shapes of the gateway makes callOracleAPI
\* throw.  In submit each leaves the handler in the same state, with the
\* simulated response of the current clock as its result, and the approval
\* built and stored from it is PENDING; in leave-balance and create-leave
\* each gives the same internal error.
C19_OneFailureClass ==
  [][/\ \A p \in Procs :
          GatewayReturns(p, "submit") =>
            LET a == Args(p) IN
            IF procs'[p].outcome \in GatewayFailures
            THEN procs'[p] =
                   [procs[p] EXCEPT
                      !.pc = "findLast", !.outcome = procs'[p].outcome,
                      !.fellBack = TRUE,
                      !.oracleResult =
                         <<SimulatedResponse(now, a.leave, a.employeeNumber)>>]
            ELSE /\ ~procs'[p].fellBack
                 /\ procs'[p].oracleResult[1].personAbsenceEntryId \in UpstreamIds
     /\ \A p \in Procs :
          At(p, "submit", "findLast") /\ Stepped(p) /\ procs[p].outcome \in GatewayFailures
            => /\ procs'[p].pc = "save"
               /\ procs'[p].doc[1].status = "PENDING"
               /\ procs'[p].doc[1].oracleResponse = procs[p].oracleResult[1]
     /\ \A p \in Procs :
          /\ At(p, "submit", "save") /\ Stepped(p)
          /\ procs[p].outcome \in GatewayFailures /\ Ends(p, "Success")
          => /\ approvals' = Append(approvals, procs[p].doc[1])
             /\ approvals'[Len(approvals')].status = "PENDING"
             /\ Len(approvals') \in synthesized'
     /\ \A p \in Procs :
          /\ GatewayReturns(p, "leaveBalance") \/ GatewayReturns(p, "createLeave")
          /\ sent'.gateway \in GatewayFailures
          => [sent' EXCEPT !.gateway = "none"] =
               [Response(500, "InternalError") EXCEPT !.kind = procs[p].kind]]_vars

\* C19 witness: a submit that got a body with status "Failed" from the gateway
\* is about to save its PENDING approval, and an approval of an earlier submit
\* on the fallback path is stored.
C19_Witness ==
  /\ synthesized # {}
  /\ \E p \in Procs :
       /\ At(p, "submit", "save") /\ procs[p].outcome = "failedBody"
       /\ procs[p].fellBack /\ procs[p].doc[1].status = "PENDING"


\* The kinds of request whose body is validated against a schema with
\* required fields.
ValidatedKinds == {"submit", "decide", "upsert"}

\* C20: a submit, decide or upsert with a missing required field or an action
\* other than APPROVE and REJECT is answered with a validation error in the
\* step it arrives in: the directory and the approval store are unchanged, and
\* the handler does not go on to any lookup, write or gateway call.  Every
\* request that goes on, and every record written at once, has its required
\* fields and a valid action.
C20_MalformedRejectedFirst ==
  [][/\ sent' # sent /\ sent'.code = "ValidationError" => AnsweredAtOnce
     /\ AnsweredAtOnce /\ sent'.code = "ValidationError" =>
          /\ sent'.http = 400
          /\ employees' = employees /\ approvals' = approvals
          /\ synthesized' = synthesized
     /\ \A p \in Procs :
          Arrived /\ Stepped(p) /\ procs'[p].kind \in ValidatedKinds =>
            LET a == procs'[p].args[1] IN
            /\ procs'[p].kind # "decide" => a.employeeNumber # MISSING
            /\ procs'[p].kind = "decide" =>
                 a.managerId # MISSING /\ a.action \in {"APPROVE", "REJECT"}
            /\ procs'[p].kind = "upsert" =>
                 a.name # MISSING /\ a.managerId # MISSING
     /\ AnsweredAtOnce /\ sent'.kind = "submit" /\ sent'.code # "ValidationError" =>
          sent'.employeeNumber # MISSING
     /\ \A e \in EmpNums :
          employees'[e].name # MISSING /\ employees'[e].managerId # MISSING
     /\ \A i \in DOMAIN approvals' :
          approvals'[i].employeeNumber # MISSING]_vars

\* C20 witness: a decide with an invalid body was answered with a validation
\* error while an approval it could have decided is PENDING.
C20_Witness ==
  /\ sent.kind = "decide" /\ sent.code = "ValidationError" /\ sent.http = 400
  /\ \E i \in DOMAIN approvals : approvals[i].status = "PENDING"


\* The submit in slot p takes a step from the await it is at.
SubmitSteps(p, pc) == At(p, "submit", pc) /\ Stepped(p)

\* C21: a submit calls the gateway only after its employee and the employee's
\* manager have resolved.  A submit answered EmployeeNotFound or
\* NoManagerAssigned is answered in the step it arrives in and one answered
\* ManagerNotFound at its manager lookup, both before any gateway call; a
\* submit waiting for the gateway holds an active employee with a manager
\* reference and the manager's record; the result of the gateway call or its
\* fallback is there before the approval-id read returns and before the
\* approval is written, and the write is the last step.
C21_GatewayAfterLookups ==
  [][/\ AnsweredAtOnce /\ sent'.kind = "submit" =>
          sent'.code \in {"ValidationError", "EmployeeNotFound", "NoManagerAssigned"}
     /\ \A p \in Procs :
          Arrived /\ Stepped(p) /\ procs'[p].kind = "submit" =>
            LET e == procs'[p].args[1].employeeNumber IN
            /\ procs'[p].pc = "findManager"
            /\ employees[e].exists /\ employees[e].isActive
            /\ ~Falsy(employees[e].managerId)
            /\ procs'[p].employee[1].managerId = employees[e].managerId
            /\ procs'[p].outcome = "none" /\ procs'[p].oracleResult = <<>>
     /\ \A p \in Procs :
          SubmitSteps(p, "findManager") =>
            LET m == procs[p].employee[1].managerId IN
            /\ procs[p].outcome = "none"
            /\ IF employees[m].exists /\ employees[m].isActive
               THEN /\ procs'[p].pc = "callOracle"
                    /\ procs'[p].manager # <<>>
                    /\ procs'[p].manager[1].employeeNumber = m
                    /\ procs'[p].outcome = "none" /\ procs'[p].oracleResult = <<>>
               ELSE Ends(p, "ManagerNotFound") /\ approvals' = approvals
     /\ \A p \in Procs :
          SubmitSteps(p, "callOracle") =>
            /\ procs[p].employee # <<>> /\ procs[p].manager # <<>>
            /\ procs[p].outcome = "none" /\ procs[p].doc = <<>>
            /\ procs'[p].pc = "findLast"
            /\ procs'[p].outcome \in GatewayOutcomes /\ procs'[p].oracleResult # <<>>
            /\ approvals' = approvals
     /\ \A p \in Procs :
          SubmitSteps(p, "findLast") =>
            /\ procs[p].outcome \in GatewayOutcomes /\ procs[p].oracleResult # <<>>
            /\ procs'[p].pc = "save" /\ approvals' = approvals
     /\ \A p \in Procs :
          SubmitSteps(p, "save") =>
            /\ procs[p].outcome \in GatewayOutcomes /\ procs[p].oracleResult # <<>>
            /\ procs[p].doc[1].oracleResponse = procs[p].oracleResult[1]
            /\ procs'[p] = IdleProc
     /\ \A p \in Procs :
          Stepped(p) /\ procs[p].kind = "submit" /\ approvals' # approvals =>
            procs[p].pc = "save"]_vars

\* C21 witness: a submit for an employee without a manager was answered
\* NoManagerAssigned while another submit, its employee and manager resolved,
\* has the result of its gateway call and is about to read the last approvalId.
C21_Witness ==
  /\ sent.kind = "submit" /\ sent.code = "NoManagerAssigned"
  /\ \E p \in Procs :
       /\ At(p, "submit", "findLast")
       /\ procs[p].employee # <<>> /\ procs[p].manager # <<>>
       /\ procs[p].outcome \in GatewayOutcomes


\* C22: no two stored approvals created on the fallback path carry the same
\* locally generated correlation id (personAbsenceEntryId).
C22_FallbackIdsDistinct ==
  \A i, j \in synthesized :
    i # j => approvals[i].leaveRequest.personAbsenceEntryId #
               approvals[j].leaveRequest.personAbsenceEntryId


\* C23: a submit that has resolved its employee and manager never ends in an
\* internal error: whatever the gateway outcome and whatever other submits
\* run, its save stores a new PENDING approval and it answers success.
C23_SubmitAlwaysSucceeds ==
  [][\A p \in Procs :
       SubmitSteps(p, "save") =>
         /\ Ends(p, "Success")
         /\ Len(approvals') = Len(approvals) + 1
         /\ approvals'[Len(approvals')].status = "PENDING"
         /\ approvals'[Len(approvals')].approvalId = sent'.approvalId]_vars

\* C24: a submit whose gateway call succeeded ends with a stored approval whose
\* leaveRequest carries the correlation id the gateway returned, also when
\* other submits run concurrently.
C24_UpstreamEntryHasApproval ==
  [][\A p \in Procs :
       SubmitSteps(p, "save") /\ procs[p].outcome = "ok" =>
         \E i \in DOMAIN approvals' :
           /\ i \notin DOMAIN approvals
           /\ approvals'[i].leaveRequest.personAbsenceEntryId =
                procs[p].oracleResult[1].personAbsenceEntryId
           /\ approvals'[i].employeeNumber = Args(p).employeeNumber]_vars


\* C25: in every state each stored approval has approvedBy and approvedAt set
\* exactly when its status is APPROVED or REJECTED, and the approvedBy of a
\* decided approval is the approval's own managerId.
C25_DecisionFieldsConsistent ==
  \A i \in DOMAIN approvals :
    LET a == approvals[i] IN
    /\ a.status \in {"PENDING", "APPROVED", "REJECTED"}
    /\ a.approvedBy # NULL <=> a.status \in {"APPROVED", "REJECTED"}
    /\ a.approvedAt # NoDate <=> a.status \in {"APPROVED", "REJECTED"}
    /\ a.status \in {"APPROVED", "REJECTED"} => a.approvedBy = a.managerId

\* C25 witness: an approval was REJECTED by its manager and carries the
\* manager as approvedBy, beside an approval that is still PENDING.
C25_Witness ==
  /\ \E i \in DOMAIN approvals :
       approvals[i].status = "REJECTED" /\ approvals[i].approvedBy = approvals[i].managerId
  /\ \E j \in DOMAIN approvals :
       approvals[j].status = "PENDING" /\ approvals[j].approvedBy = NULL


\* C26: in every state of the directory an employee whose manager reference
\* is empty has no manager name.
C26_NoManagerNoManagerName ==
  \A e \in EmpNums :
    employees[e].exists /\ Falsy(employees[e].managerId) =>
      Falsy(employees[e].managerName)

====
